---- MODULE Spec2Model ----
(***************************************************************************)
(* Model of the activity export pipeline of gcexport.py:                   *)
(*   GarminConnect.get_activities (paging loop, per-activity processing),  *)
(*   get_activity_details, extract_device, load_gear, download_activity,   *)
(*   and the pure field resolver from_activities_or_detail.                *)
(*                                                                         *)
(* The program is single threaded.  get_activities is modelled as a        *)
(* sequential process whose steps are its HTTP round trips: each action    *)
(* issues one request, draws the service's answer from a small set and     *)
(* runs the code up to the next request.  An uncaught exception moves the  *)
(* process to pc = "aborted" (nothing in get_activities or main catches    *)
(* anything but KeyboardInterrupt).                                        *)
(*                                                                         *)
(* Environment:                                                            *)
(*  - the listing service holds its activities newest first; the activity  *)
(*    at offset k is identified by k, so a < b means a started later than  *)
(*    b.  A page may come back shorter than requested.                     *)
(*  - a detail response carries the activityId that was asked for.         *)
(*  - a file of the export directory is named by <<activity, extension>>:  *)
(*    the stem of download_activity is a function of the activity's start  *)
(*    time, which is fixed per activity.                                   *)
(***************************************************************************)
EXTENDS Integers, Sequences, FiniteSets, TLC

(* ------------------------------ constants ------------------------------ *)

LIMIT_MAXIMUM == 1000

MAX_TRIES_mut4 == 3 + 1

MAX_TRIES == 3

(* ------------------------------- bounds -------------------------------- *)

\* pages a run may need
MaxPages == 2
\* entries the listing service returns at most over a run
MaxReturned == 2
\* distinct deviceApplicationInstallationId values
MaxDevices == 2
\* entries of a downloaded archive
MaxEntries == 2
\* up to MaxPreExisting of the newest activities have their '.zip' target in
\* the export directory when a run starts
MaxPreExisting == 1
\* entries of the gear list in a gear response to a direct call of load_gear
MaxGear == 2
\* direct calls of load_gear
MaxGearCalls == 2
\* lines of a column template
MaxLines == 2
\* rows written to the CSV file
MaxWrites == 2

(* ------------------------------ helpers -------------------------------- *)

Min(a, b) == IF a < b THEN a ELSE b

Reverse_mutNone(s) == s

\* reversed(all_activities)
Reverse(s) == [k \in 1..Len(s) |-> s[Len(s) + 1 - k]]

\* target totals: none, one, one less than a page, exactly a page, and for
\* every page count up to MaxPages a total that leaves 1 entry for the last
\* page
Totals ==
  {0, 1, LIMIT_MAXIMUM - 1, LIMIT_MAXIMUM}
    \cup { p * LIMIT_MAXIMUM + 1 : p \in 1..(MaxPages - 1) }

\* the activities a run can meet: offsets at the head of each page
Acts ==
  { p * LIMIT_MAXIMUM + k : p \in 0..(MaxPages - 1), k \in 0..(MaxReturned - 1) }

DeviceIds == 1..MaxDevices

(* --------------------------- python values ----------------------------- *)

\* values held by device_dict and returned by extract_device / load_gear
None == [kind |-> "None", id |-> 0, name |-> "", ver |-> ""]
Placeholder_mutNone(d) == None

Placeholder(d) == [kind |-> "device-id", id |-> d, name |-> "", ver |-> ""]
Display(n, v) == [kind |-> "display", id |-> 0, name |-> n, ver |-> v]
Str(s) == [kind |-> "str", id |-> 0, name |-> s, ver |-> ""]

(* ------------------------------ files ---------------------------------- *)

EntryExts == {"fit", "gpx"}

Absent == [kind |-> "absent", entries |-> <<>>, entry |-> 0]
\* a file of zero bytes
Empty == [kind |-> "empty", entries |-> <<>>, entry |-> 0]
\* non-empty bytes that are no zip archive
Data == [kind |-> "data", entries |-> <<>>, entry |-> 0]
\* a zip archive; entries lists the extension of each entry's name
Zip(es) == [kind |-> "zip", entries |-> es, entry |-> 0]
\* the extracted k-th entry of the archive es
Extracted(es, k) == [kind |-> "extracted", entries |-> es, entry |-> k]

Archives == UNION { [1..n -> EntryExts] : n \in 0..MaxEntries }

Size(c) == IF c.kind = "empty" THEN 0 ELSE 1

Formats == {"ORIGINAL", "GPX", "TCX", "JSON"}

\* the format tags download_activity is called with: the documented ones and
\* one that is no format
Tags == Formats \cup {"FIT"}

Statuses == {200, 404, 500}

Ok_mut5xx(status) == status < 500

\* requests.Response.ok: no 4xx or 5xx status
Ok(status) == status < 400

(* -------------------------- download_activity -------------------------- *)

allowed_formats == {"ORIGINAL", "GPX", "JSON"}

\* download_filename: '<stem>_<activityId>.zip' for ORIGINAL, else
\* '<stem>_<activityId>.<format>'
download_filename(a, fmt) == <<a, IF fmt # "ORIGINAL" THEN fmt ELSE "zip">>

\* the export directory is a function from the paths of its files to their
\* contents
NoFiles == [p \in {} |-> Absent]

\* export_dir/activities.csv, the file of no activity
export_csv == <<-1, "csv">>

\* the file at path p, Absent if there is none
File(dsk, p) == IF p \in DOMAIN dsk THEN dsk[p] ELSE Absent

\* Path.write_bytes(c), ZipFile.extract and Path.rename: p holds c afterwards
Write(dsk, p, c) == [q \in DOMAIN dsk \cup {p} |-> IF q = p THEN c ELSE dsk[q]]

\* Path.unlink()
Unlink(dsk, p) == [q \in DOMAIN dsk \ {p} |-> dsk[q]]

Exists_mutNonEmpty(dsk, p) == p \in DOMAIN dsk /\ Size(dsk[p]) > 0

\* Path.exists()
Exists(dsk, p) == p \in DOMAIN dsk

\* the for loop over zip_obj.namelist(): extract the k-th entry, then rename
\* it to download_filename.with_suffix(<the entry's suffix>)
RECURSIVE Unzip(_, _, _, _)
Unzip(dsk, a, es, k) ==
  IF k > Len(es) THEN dsk
  ELSE Unzip(Write(dsk, <<a, es[k]>>, Extracted(es, k)), a, es, k + 1)

\* what one call of download_activity does to the export directory dsk, for
\* activity a, format fmt, and the service answering the download request
\* (if one is issued) with status and body.
\*   disk: the directory afterwards      nreq: download requests issued
\*   ret: "True" | "False" | "raise"     err: the exception raised
\*   unzip: the archive was opened       unlink: the target was deleted
DlResult(dsk, nreq, ret, err, unzip, unlink) ==
  [disk |-> dsk, nreq |-> nreq, ret |-> ret, err |-> err,
   unzip |-> unzip, unlink |-> unlink]

Persist_mutUnlink(dsk, a, fmt, raw) ==
  LET target == download_filename(a, fmt)
      written == Write(dsk, target, raw)
  IN  IF fmt = "ORIGINAL"
      THEN IF Size(raw) > 0
           THEN IF raw.kind = "zip"
                THEN DlResult(Unlink(Unzip(written, a, raw.entries, 1), target),
                              1, "True", "", TRUE, TRUE)
                ELSE DlResult(written, 1, "raise", "BadZipFile", TRUE, FALSE)
           ELSE DlResult(Unlink(written, target), 1, "True", "",
                         FALSE, TRUE)
      ELSE DlResult(written, 1, "True", "", FALSE, FALSE)

\* write_bytes(raw_data) and the 'Persist file' block
Persist(dsk, a, fmt, raw) ==
  LET target == download_filename(a, fmt)
      written == Write(dsk, target, raw)
  IN  IF fmt = "ORIGINAL"
      THEN IF Size(raw) > 0
           THEN IF raw.kind = "zip"
                THEN DlResult(Unzip(written, a, raw.entries, 1), 1, "True", "",
                              TRUE, FALSE)
                ELSE DlResult(written, 1, "raise", "BadZipFile", TRUE, FALSE)
           ELSE DlResult(Unlink(written, target), 1, "True", "",
                         FALSE, TRUE)
      ELSE DlResult(written, 1, "True", "", FALSE, FALSE)

download_activity(dsk, a, fmt, status, body) ==
  LET target == download_filename(a, fmt)
  IN  IF fmt \notin allowed_formats
      THEN DlResult(dsk, 0, "raise", "ValueError", FALSE, FALSE)
      ELSE IF Exists(dsk, target)
      THEN DlResult(dsk, 0, "False", "", FALSE, FALSE)
      ELSE IF fmt # "JSON"
      THEN IF status = 404 /\ fmt = "ORIGINAL"
           THEN Persist(dsk, a, fmt, Empty)
           ELSE IF ~Ok(status)
           THEN DlResult(dsk, 1, "raise", "Exception", FALSE, FALSE)
           ELSE Persist(dsk, a, fmt, body)
      \* raw_data is the detail dict: Path.write_bytes takes a memoryview of
      \* it before opening the file, which raises TypeError
      ELSE DlResult(dsk, 0, "raise", "TypeError", FALSE, FALSE)

(* ------------------- from_activities_or_detail ------------------------- *)

\* JSON values: t is "none", "int", "str" or "dict"; n is the number of an
\* int and the length of a str; d is the mapping of a dict
EmptyDict == [k \in {} |-> 0]
Py(t, n, d) == [t |-> t, n |-> n, d |-> d]
PyNone == Py("none", 0, EmptyDict)
PyDict(d) == Py("dict", 0, d)

Scalars ==
  { PyNone, Py("int", 0, EmptyDict), Py("int", 5, EmptyDict),
    Py("str", 0, EmptyDict), Py("str", 1, EmptyDict) }

PyTruthy_mutNotNone(v) == v.t # "none"

\* python truth of a value
PyTruthy(v) ==
  CASE v.t = "none" -> FALSE
    [] v.t = "int" -> v.n # 0
    [] v.t = "str" -> v.n # 0
    [] v.t = "dict" -> DOMAIN v.d # {}

Keys == {"distance", "calories"}

\* the records with members among Keys
Records == { PyDict(d) : d \in UNION { [S -> Scalars] : S \in SUBSET Keys } }

\* a summary record: None or a record
Summaries == {PyNone} \cup Records

\* a detail record: None, empty, or with a container that is null, a falsy
\* scalar or a record
Details ==
  {PyNone, PyDict(EmptyDict)}
    \cup { PyDict([c \in {"summaryDTO"} |-> v]) :
             v \in { x \in Scalars : ~PyTruthy(x) } \cup Records }

absent_or_null_mutNoneOnly(e, a) ==
  IF ~PyTruthy(a) THEN TRUE
  ELSE IF e \notin DOMAIN a.d THEN TRUE
  ELSE IF a.d[e].t # "none" THEN FALSE
  ELSE TRUE

absent_or_null(e, a) ==
  IF ~PyTruthy(a) THEN TRUE
  ELSE IF e \notin DOMAIN a.d THEN TRUE
  ELSE IF PyTruthy(a.d[e]) THEN FALSE
  ELSE TRUE

from_activities_or_detail(e, a, dt, detail_container) ==
  IF absent_or_null(detail_container, dt)
       \/ absent_or_null(e, dt.d[detail_container])
  THEN IF absent_or_null(e, a) THEN PyNone ELSE a.d[e]
  ELSE dt.d[detail_container].d[e]

(* ------------------------------- state --------------------------------- *)

VARIABLES
  pc,               \* where the program is: "loop", "details", "device",
                    \* "gear", "download", "done", "aborted" in a run of
                    \* get_activities; "api" when download_activity is called
                    \* directly; "resolve" for the field resolver
  error,            \* the exception that aborted the run ("" if none)
  total_n,          \* get_activities: total_n
  downloaded_n,     \* get_activities: downloaded_n
  num_to_download,  \* get_activities: num_to_download
  all_activities,   \* get_activities: the page, as the service returned it
  idx,              \* get_activities: i, the index into reversed(all_activities)
  tries,            \* get_activity_details: detail requests issued so far
  activity_details, \* the last detail response
  device_dict,      \* get_activities: device_dict, id -> value
  extract,          \* get_activities: extract['device'], extract['gear']
  disk,             \* the export directory: path -> content
  \* history, read by the properties only
  disk0,            \* the export directory when the program started
  listReqs,         \* the (start, limit) pairs of the listing requests
  processed,        \* the activities whose processing began, in order
  pages,            \* the page index of each processed activity
  detailLog,        \* get_activity_details, running or just returned: for
                    \* each response so far, whether it carried a summary
  reqs,             \* device, gear and download requests issued for the
                    \* current activity
  devReqs,          \* device requests issued, per id
  devLog,           \* the values extract_device returned, per id
  lookupId,         \* the id extract_device was called with for the current
                    \* activity (0: the detail has none)
  dl,               \* the last call of download_activity
  \* the field resolver
  element,          \* from_activities_or_detail: element
  act,              \* from_activities_or_detail: act, the summary record
  detail,           \* from_activities_or_detail: detail
  result,           \* what from_activities_or_detail returned
  \* history of a run, continued
  devResp,          \* the answer to the device request of the current
                    \* activity (NoDevice if none was issued)
  listStatus,       \* the status of the answer to the last listing request
                    \* (0: none, or an activity has been processed since)
  \* the session
  ticket,           \* login: "" before the login response, "none" if the
                    \* response holds no ticket, else "found"
  http,             \* the requests of GarminConnect.__init__, in order
  \* load_gear, called directly
  gearCall,         \* the calls so far: activity, response, returned value
  \* CsvFilter
  template,         \* the lines of the column template
  csv_columns,      \* __csv_columns
  csv_headers,      \* __csv_headers
  current_row,      \* __current_row
  csv_file,         \* the rows written to __csv_file
  csvCall,          \* the last call of a CsvFilter method
  \* pace_or_speed_formatted
  type_id,
  parent_type_id,
  mps,              \* the speed, in mm/s
  formatted         \* the string returned

vars == <<pc, error, total_n, downloaded_n, num_to_download, all_activities,
          idx, tries, activity_details, device_dict, extract, disk, disk0,
          listReqs, processed, pages, detailLog, reqs, devReqs, devLog,
          lookupId, dl, element, act, detail, result, devResp, listStatus,
          ticket, http, gearCall, template, csv_columns, csv_headers, current_row,
          csv_file, csvCall, type_id, parent_type_id, mps, formatted>>

resolveVars == <<element, act, detail, result>>

sessionVars == <<ticket, http>>

csvVars == <<template, csv_columns, csv_headers, current_row, csv_file, csvCall>>

paceVars == <<type_id, parent_type_id, mps, formatted>>

\* what a run of get_activities does not touch
otherVars == <<resolveVars, sessionVars, gearCall, csvVars, paceVars>>

\* the variables of a run and of download_activity
runVars ==
  <<error, total_n, downloaded_n, num_to_download, all_activities, idx, tries,
    activity_details, device_dict, extract, disk, disk0, listReqs, processed,
    pages, detailLog, reqs, devReqs, devLog, lookupId, dl, devResp,
    listStatus>>

pageVars == <<total_n, downloaded_n, num_to_download, all_activities, idx>>

NoDetails == [activityId |-> -1, summary |-> "missing"]

NoExtract == [device |-> None, gear |-> None]

\* a device response: ok, and whether the body has productDisplayName and
\* versionString
NoDevice == [ok |-> FALSE, name |-> FALSE, ver |-> FALSE]

NoReqs == [device |-> 0, gear |-> 0]

NoCall ==
  [act |-> -1, fmt |-> "", status |-> 0, before |-> Absent, nreq |-> 0,
   ret |-> "", err |-> "", unzip |-> FALSE, unlink |-> FALSE]

\* the record of a call of download_activity with result r; status is the
\* status of the answer, 0 when the call has issued no request
Call(dsk, a, fmt, status, r) ==
  [act |-> a, fmt |-> fmt, status |-> IF r.nreq = 0 THEN 0 ELSE status,
   before |-> File(dsk, download_filename(a, fmt)), nreq |-> r.nreq, ret |-> r.ret,
   err |-> r.err, unzip |-> r.unzip, unlink |-> r.unlink]

\* the requests GarminConnect.__init__ issues: login (the login page, the
\* credentials, the ticket), the activity types, the event types, the user
\* stats
ConstructorRequests ==
  <<"LOGIN", "LOGIN_POST", "POST_AUTH", "ACT_PROPS", "EVT_PROPS", "USERSTATS">>

\* a GarminConnect object has been constructed
LoggedIn == ticket = "found" /\ http = ConstructorRequests

\* no GarminConnect object
NoSession == ticket = "" /\ http = <<>>

\* csvCall before any call of a CsvFilter method
NoCsvCall == [op |-> "", name |-> "", value |-> PyNone, err |-> ""]

\* no get_activities and no download_activity
RunIdle ==
  /\ error = ""
  /\ total_n = 0
  /\ downloaded_n = 0
  /\ num_to_download = 0
  /\ all_activities = <<>>
  /\ idx = 0
  /\ tries = 0
  /\ activity_details = NoDetails
  /\ device_dict = <<>>
  /\ extract = NoExtract
  /\ disk = NoFiles
  /\ disk0 = disk
  /\ listReqs = <<>>
  /\ processed = <<>>
  /\ pages = <<>>
  /\ detailLog = <<>>
  /\ reqs = NoReqs
  /\ devReqs = [d \in DeviceIds |-> 0]
  /\ devLog = [d \in DeviceIds |-> {}]
  /\ lookupId = 0
  /\ dl = NoCall
  /\ devResp = NoDevice
  /\ listStatus = 0

ResolveIdle == element = "" /\ act = PyNone /\ detail = PyNone /\ result = PyNone

\* gearCall before any call.  calls: the calls of load_gear so far; reqs: the
\* gear requests so far; act, resp, ret: the activity, the response and the
\* returned value of the last call
NoGearCall ==
  [calls |-> 0, reqs |-> 0, act |-> -1, resp |-> [ok |-> FALSE, gear |-> <<>>],
   ret |-> None]

GearIdle == gearCall = NoGearCall

CsvIdle ==
  /\ template = <<>>
  /\ csv_columns = <<>>
  /\ csv_headers = <<>>
  /\ current_row = <<>>
  /\ csv_file = <<>>
  /\ csvCall = NoCsvCall

PaceIdle == type_id = 0 /\ parent_type_id = 0 /\ mps = 0 /\ formatted = <<>>

\* the activity the for loop is at: reversed(all_activities)[i]
Current == Reverse(all_activities)[idx + 1]

\* files that may be in the export directory before a run: for any activity
\* a zero-byte '.zip' target, left there by an earlier program or a crash
RunDisks ==
  { [p \in { <<a, "zip">> : a \in S } |-> Empty] :
      S \in { { a \in Acts : a < k } : k \in 0..MaxPreExisting } }

InitRun ==
  /\ pc = "loop"
  /\ error = ""
  /\ total_n \in Totals
  /\ downloaded_n = 0
  /\ num_to_download = 0
  /\ all_activities = <<>>
  /\ idx = 0
  /\ tries = 0
  /\ activity_details = NoDetails
  /\ device_dict = <<>>
  /\ extract = NoExtract
  /\ disk \in RunDisks
  /\ disk0 = disk
  /\ listReqs = <<>>
  /\ processed = <<>>
  /\ pages = <<>>
  /\ detailLog = <<>>
  /\ reqs = NoReqs
  /\ devReqs = [d \in DeviceIds |-> 0]
  /\ devLog = [d \in DeviceIds |-> {}]
  /\ lookupId = 0
  /\ dl = NoCall
  /\ devResp = NoDevice
  /\ listStatus = 0
  /\ LoggedIn
  /\ ResolveIdle
  /\ GearIdle
  /\ CsvIdle
  /\ PaceIdle

(* --------------------------- get_activities ---------------------------- *)

\* the page the service returns for (start, limit): the activities at
\* offsets start, start+1, ..., newest first, possibly fewer than limit
Page(start, len) == [k \in 1..len |-> start + k - 1]

Advance_mutByReturned(downloaded, num, got) == downloaded + got

\* downloaded_n += num_to_download, whatever the number of entries the page
\* returned
Advance(downloaded, num, got) == downloaded + num

\* the for loop enters its body for the activity at index i of the page,
\* which is the pageNo-th page of the run
BeginActivity(page, i, pageNo) ==
  /\ pc' = "details"
  /\ idx' = i
  /\ tries' = 0
  /\ activity_details' = NoDetails
  /\ extract' = NoExtract
  /\ processed' = Append(processed, Reverse(page)[i + 1])
  /\ pages' = Append(pages, pageNo)
  /\ detailLog' = <<>>
  /\ reqs' = NoReqs
  /\ lookupId' = 0

\* the statuses of the responses to a listing request: a success and a
\* failure
ListStatuses == {200, 500}

\* the lengths of the list a listing response of status st can carry: a
\* response with a failing status carries no activity
ListLengths(st, num) ==
  IF st >= 400 THEN {0} ELSE 0..Min(num, MaxReturned - Len(processed))

\* the while loop's head: one listing request and the page it returns; the
\* status of the response is not read
ListRequest ==
  /\ pc = "loop"
  /\ downloaded_n < total_n
  /\ LET num == IF total_n - downloaded_n > LIMIT_MAXIMUM
                THEN LIMIT_MAXIMUM
                ELSE total_n - downloaded_n
     IN  /\ num_to_download' = num
         /\ listReqs' = Append(listReqs, <<downloaded_n, num>>)
         /\ \E st \in ListStatuses : \E len \in ListLengths(st, num) :
              /\ listStatus' = st
              /\ all_activities' = Page(downloaded_n, len)
              /\ IF len = 0
                 THEN /\ pc' = "loop"
                      /\ downloaded_n' = Advance(downloaded_n, num, len)
                      /\ idx' = 0
                      /\ UNCHANGED <<tries, activity_details, extract,
                                     processed, pages, detailLog, reqs,
                                     lookupId>>
                 ELSE /\ BeginActivity(Page(downloaded_n, len), 0, Len(listReqs) + 1)
                      /\ UNCHANGED downloaded_n
  /\ UNCHANGED <<error, total_n, device_dict, disk, disk0, devReqs, devLog, dl,
                 devResp, otherVars>>

\* the listing request fails: session.get raises, or the body is no list of
\* activities, and the exception leaves get_activities
ListFail ==
  /\ pc = "loop"
  /\ downloaded_n < total_n
  /\ LET num == IF total_n - downloaded_n > LIMIT_MAXIMUM
                THEN LIMIT_MAXIMUM
                ELSE total_n - downloaded_n
     IN  /\ num_to_download' = num
         /\ listReqs' = Append(listReqs, <<downloaded_n, num>>)
  /\ listStatus' \in {0} \cup ListStatuses
  /\ pc' = "aborted"
  /\ error' = "ListingError"
  /\ UNCHANGED <<total_n, downloaded_n, all_activities, idx, tries,
                 activity_details, device_dict, extract, disk, disk0,
                 processed, pages, detailLog, reqs, devReqs, devLog,
                 lookupId, dl, devResp, otherVars>>

\* the while condition fails: get_activities returns
Finish ==
  /\ pc = "loop"
  /\ ~(downloaded_n < total_n)
  /\ pc' = "done"
  \* the listing response is a local of get_activities
  /\ listStatus' = 0
  /\ UNCHANGED <<error, pageVars, tries, activity_details, device_dict,
                 extract, disk, disk0, listReqs, processed, pages, detailLog,
                 reqs, devReqs, devLog, lookupId, dl, devResp, otherVars>>

(* ------------------------- get_activity_details ------------------------ *)

\* a detail response for activity a: its summaryDTO member is missing, null,
\* an empty object or a full one
Detail(a, s) == [activityId |-> a, summary |-> s]

DetailResponses(a) ==
  { Detail(a, s) : s \in {"missing", "null", "empty", "full"} }

HasSummary_mutAny(resp) == TRUE

\* details.get('summaryDTO') is not None
HasSummary(resp) == resp.summary \notin {"missing", "null"}

\* one pass of the retry loop: a detail request and its response
DetailRequest ==
  /\ pc = "details"
  /\ tries < MAX_TRIES
  /\ \E resp \in DetailResponses(Current) :
       /\ activity_details' = IF HasSummary(resp) THEN resp ELSE NoDetails
       /\ detailLog' = Append(detailLog, HasSummary(resp))
       /\ tries' = tries + 1
       /\ IF HasSummary(resp)
          THEN pc' = "device" /\ UNCHANGED error
          ELSE IF tries + 1 < MAX_TRIES
          THEN pc' = "details" /\ UNCHANGED error
          ELSE pc' = "aborted" /\ error' = "RuntimeError"
  \* the value download_activity returned for the activity before is dropped
  /\ dl' = NoCall
  /\ UNCHANGED <<pageVars, device_dict, extract, disk, disk0, listReqs,
                 processed, pages, reqs, devReqs, devLog, lookupId,
                 devResp,
                 listStatus, otherVars>>

(* ---------------------------- extract_device --------------------------- *)

DevMetas == {"missing", "null", "noDeviceId", "nullId", "zero", "someid"}

\* the metadata of a detail, drawn when extract_device reads it.  hasMeta:
\* metadataDTO is there.  instId: deviceApplicationInstallationId (0: missing
\* or null).  devMeta: deviceMetaDataDTO is missing, null, has no deviceId,
\* or has deviceId null, '0' or some id.
Metadata(m, i, dm) == [hasMeta |-> m, instId |-> i, devMeta |-> dm]

Metadatas ==
       { Metadata(FALSE, 0, "missing"), Metadata(TRUE, 0, "someid") }
  \cup { Metadata(TRUE, i, dm) : i \in DeviceIds, dm \in DevMetas }

DeviceResponses == { NoDevice } \cup [ok : {TRUE}, name : BOOLEAN, ver : BOOLEAN]

DevResult(dict, nreq, val, err) ==
  [dict |-> dict, nreq |-> nreq, val |-> val, err |-> err]

Put(dict, k, v) == [x \in DOMAIN dict \cup {k} |-> IF x = k THEN v ELSE dict[x]]

Cached_mutNever(dict, id) == FALSE

\* device_app_inst_id in device_dict
Cached(dict, id) == id \in DOMAIN dict

extract_device(dict, metadata, resp) ==
  IF ~metadata.hasMeta THEN DevResult(dict, 0, None, "")
  ELSE IF metadata.instId = 0 THEN DevResult(dict, 0, None, "")
  ELSE LET id == metadata.instId
           dict1 == Put(dict, id, None)
       IN  IF Cached(dict, id) THEN DevResult(dict, 0, dict[id], "")
           \* device_meta is None: device_meta.get raises
           ELSE IF metadata.devMeta \in {"missing", "null"}
           THEN DevResult(dict1, 0, None, "AttributeError")
           ELSE IF metadata.devMeta \in {"noDeviceId", "someid"}
           THEN IF ~resp.ok
                THEN DevResult(Put(dict1, id, Placeholder(id)), 1,
                               Placeholder(id), "")
                ELSE IF resp.name
                THEN IF resp.ver
                     THEN DevResult(Put(dict1, id, Display("fenix", "5.0")), 1,
                                    Display("fenix", "5.0"), "")
                     \* device_details['versionString'] raises
                     ELSE DevResult(dict1, 1, None, "KeyError")
                ELSE DevResult(dict1, 1, None, "")
           ELSE DevResult(dict1, 0, None, "")

DeviceStep ==
  /\ pc = "device"
  /\ \E meta \in Metadatas :
     \* a response is drawn if extract_device issues the request
     \E resp \in IF extract_device(device_dict, meta, NoDevice).nreq = 0
                 THEN { NoDevice } ELSE DeviceResponses :
       LET r == extract_device(device_dict, meta, resp)
           id == meta.instId
       IN  /\ device_dict' = r.dict
           /\ reqs' = [reqs EXCEPT !.device = @ + r.nreq]
           /\ devReqs' = IF r.nreq > 0
                         THEN [devReqs EXCEPT ![id] = @ + r.nreq]
                         ELSE devReqs
           /\ lookupId' = IF meta.hasMeta THEN id ELSE 0
           /\ devResp' = IF r.nreq > 0 THEN resp ELSE NoDevice
           /\ IF r.err # ""
              THEN /\ pc' = "aborted"
                   /\ error' = r.err
                   /\ UNCHANGED <<extract, devLog>>
              ELSE /\ pc' = "gear"
                   /\ extract' = [extract EXCEPT !.device = r.val]
                   /\ devLog' = IF meta.hasMeta /\ id # 0
                                THEN [devLog EXCEPT ![id] = @ \cup {r.val}]
                                ELSE devLog
                   /\ UNCHANGED error
  \* get_activity_details has returned: its locals are gone, and of the
  \* detail only activityId is read from here on
  /\ tries' = 0
  /\ detailLog' = <<>>
  /\ activity_details' = [NoDetails EXCEPT !.activityId = activity_details.activityId]
  /\ UNCHANGED <<pageVars, disk, disk0, listReqs, processed, pages, dl,
                 listStatus, otherVars>>

(* ------------------------------ load_gear ------------------------------ *)

GearEntries ==
  [displayName : {None, Str(""), Str("shoes")},
   customMakeModel : {None, Str("model")}]

\* a gear response: ok, and the list of the body (only gear[0] is read)
GearResponses ==
  { [ok |-> FALSE, gear |-> <<>>], [ok |-> TRUE, gear |-> <<>>] }
    \cup { [ok |-> TRUE, gear |-> <<e>>] : e \in GearEntries }

Truthy_mutNotNone(v) == v.kind # "None"

\* python truth of a string or None
Truthy(v) == v.kind # "None" /\ ~(v.kind = "str" /\ v.name = "")

load_gear(resp) ==
  IF resp.ok
  THEN IF Len(resp.gear) > 0
       THEN IF Truthy(resp.gear[1].displayName)
            THEN resp.gear[1].displayName
            ELSE resp.gear[1].customMakeModel
       ELSE None
  ELSE None

GearStep ==
  /\ pc = "gear"
  /\ \E resp \in GearResponses :
       extract' = [extract EXCEPT !.gear = load_gear(resp)]
  /\ reqs' = [reqs EXCEPT !.gear = @ + 1]
  /\ pc' = "download"
  \* extract_device has returned: the device response is gone
  /\ devResp' = NoDevice
  /\ UNCHANGED <<error, pageVars, tries, activity_details, device_dict, disk,
                 disk0, listReqs, processed, pages, detailLog, devReqs,
                 devLog, lookupId, dl, listStatus, otherVars>>

(* ----------------------- load_gear, called directly -------------------- *)

\* gear lists of up to MaxGear entries
GearLists == UNION { [1..n -> GearEntries] : n \in 0..MaxGear }

GearApiResponses ==
  { [ok |-> FALSE, gear |-> <<>>] } \cup { [ok |-> TRUE, gear |-> g] : g \in GearLists }

\* the activities load_gear is called for
GearActs == {0, 1}

InitGear ==
  /\ pc = "gearapi"
  /\ RunIdle
  /\ LoggedIn
  /\ ResolveIdle
  /\ GearIdle
  /\ CsvIdle
  /\ PaceIdle

\* one call load_gear(activity_id): the gear request, then the value
GearCall ==
  /\ pc = "gearapi"
  /\ gearCall.calls < MaxGearCalls
  /\ \E a \in GearActs, resp \in GearApiResponses :
       gearCall' = [calls |-> gearCall.calls + 1, reqs |-> gearCall.reqs + 1,
                    act |-> a, resp |-> resp, ret |-> load_gear(resp)]
  /\ UNCHANGED <<pc, runVars, resolveVars, sessionVars, csvVars, paceVars>>

\* calls of load_gear
SpecGear == InitGear /\ [][GearCall]_vars

(* ------------- get_activities: the download of an activity ------------- *)

\* bodies of a successful download answer in a run
RunBodies == {Empty, Data, Zip(<<"fit">>)}

\* self.download_activity(activity_details, ..., format="ORIGINAL"), then
\* the end of the loop body: the next activity of the page, or the end of
\* the page and downloaded_n += num_to_download
DownloadStep ==
  /\ pc = "download"
  /\ \E status \in Statuses :
     \E body \in IF Ok(status) THEN RunBodies ELSE {Empty} :
       LET a == activity_details.activityId
           r == download_activity(disk, a, "ORIGINAL", status, body)
       IN  /\ disk' = r.disk
           /\ dl' = Call(disk, a, "ORIGINAL", status, r)
           /\ IF r.ret = "raise"
              \* the exception unwinds get_activities: its locals are gone
              THEN /\ pc' = "aborted"
                   /\ error' = r.err
                   /\ activity_details' = NoDetails
                   /\ extract' = NoExtract
                   /\ reqs' = NoReqs
                   /\ lookupId' = 0
                   /\ UNCHANGED <<pageVars, tries, processed, pages,
                                  detailLog>>
              ELSE IF idx + 1 < Len(all_activities)
              THEN /\ BeginActivity(all_activities, idx + 1, Len(listReqs))
                   /\ UNCHANGED <<error, total_n, downloaded_n,
                                  num_to_download, all_activities>>
              \* the page is done: the locals of the loop body are dead
              ELSE /\ pc' = "loop"
                   /\ downloaded_n' = Advance(downloaded_n, num_to_download,
                                              Len(all_activities))
                   /\ activity_details' = NoDetails
                   /\ extract' = NoExtract
                   /\ reqs' = NoReqs
                   /\ lookupId' = 0
                   /\ UNCHANGED <<error, total_n, num_to_download,
                                  all_activities, idx, tries, processed, pages,
                                  detailLog>>
  /\ UNCHANGED <<device_dict, disk0, listReqs, devReqs, devLog, devResp,
                 listStatus, otherVars>>

(* ------------------ download_activity, called directly ------------------ *)

ApiActs == {0}

ApiBodies == {Empty, Data} \cup { Zip(es) : es \in Archives }

\* files that may be in the export directory before the calls
ApiDisks ==
  { [p \in { <<a, e>> : a \in ApiActs,
                           e \in { x \in DOMAIN f : f[x] # Absent } }
        |-> f[p[2]]] :
      f \in { g \in [{"zip", "GPX", "TCX", "JSON"} ->
                      {Absent, Empty, Data, Zip(<<"fit">>)}] :
                \A e \in DOMAIN g : e # "zip" => g[e].kind # "zip" } }

InitApi ==
  /\ pc = "api"
  /\ error = ""
  /\ total_n = 0
  /\ downloaded_n = 0
  /\ num_to_download = 0
  /\ all_activities = <<>>
  /\ idx = 0
  /\ tries = 0
  /\ activity_details = NoDetails
  /\ device_dict = <<>>
  /\ extract = NoExtract
  /\ disk \in ApiDisks
  /\ disk0 = disk
  /\ listReqs = <<>>
  /\ processed = <<>>
  /\ pages = <<>>
  /\ detailLog = <<>>
  /\ reqs = NoReqs
  /\ devReqs = [d \in DeviceIds |-> 0]
  /\ devLog = [d \in DeviceIds |-> {}]
  /\ lookupId = 0
  /\ dl = NoCall
  /\ devResp = NoDevice
  /\ listStatus = 0
  /\ LoggedIn
  /\ ResolveIdle
  /\ GearIdle
  /\ CsvIdle
  /\ PaceIdle

\* one call download_activity(activity_details, start_time, format)
ApiCall ==
  /\ pc = "api"
  /\ \E a \in ApiActs, fmt \in Tags, status \in Statuses :
     \E body \in IF Ok(status) /\ fmt # "JSON" THEN ApiBodies ELSE {Empty} :
       LET r == download_activity(disk, a, fmt, status, body)
       IN  /\ disk' = r.disk
           /\ dl' = Call(disk, a, fmt, status, r)
  /\ UNCHANGED <<pc, error, pageVars, tries, activity_details, device_dict,
                 extract, disk0, listReqs, processed, pages, detailLog, reqs,
                 devReqs, devLog, lookupId, devResp,
                 listStatus, otherVars>>

(* ------------------------------ CsvFilter ------------------------------ *)

\* internal column names, and one more name that set_column is called with
ColNames == {"id", "device"}

SetNames == ColNames \cup {"gear"}

Headers == {"Activity ID", "Device"}

\* the lines of a template: blank, a comment, or 'key=value'
Blank == [kind |-> "blank", key |-> "", value |-> ""]
Comment == [kind |-> "comment", key |-> "", value |-> ""]
Prop(k, v) == [kind |-> "prop", key |-> k, value |-> v]

TemplateLines == {Blank, Comment} \cup { Prop(k, v) : k \in ColNames, v \in Headers }

Templates == UNION { [1..n -> TemplateLines] : n \in 0..MaxLines }

\* load_properties(multiline, keys=keys): acc holds props and keys so far
RECURSIVE load_properties(_, _)
load_properties(lines, acc) ==
  IF lines = <<>> THEN acc
  ELSE LET line == Head(lines)
       IN  load_properties(Tail(lines),
             IF line.kind = "prop"
             THEN [props |-> Put(acc.props, line.key, line.value),
                   keys |-> Append(acc.keys, line.key)]
             ELSE acc)

csv_field_names_mutReversed(columns, headers) ==
  [i \in 1..Len(columns) |-> headers[columns[Len(columns) + 1 - i]]]

\* __csv_field_names: the header of each column, in the order of the columns
csv_field_names(columns, headers) ==
  [i \in 1..Len(columns) |-> headers[columns[i]]]

\* the values set_column is called with: None, '', a non-empty string, 5
CsvValues ==
  { PyNone, Py("str", 0, EmptyDict), Py("str", 1, EmptyDict),
    Py("int", 5, EmptyDict) }

\* value.encode('utf8')
Encode(v) == Py("bytes", v.n, EmptyDict)

\* the text csv.writer writes for a value of the row: str(value), which for
\* bytes is b'...'
FieldText(v) == Py("str", IF v.t = "bytes" THEN v.n + 3 ELSE v.n, EmptyDict)

InColumns(name, columns) == \E i \in 1..Len(columns) : columns[i] = name

\* set_column(name, value) on the row: the row afterwards and the exception
set_column(row, columns, headers, name, value) ==
  IF PyTruthy(value) /\ InColumns(name, columns)
  THEN IF value.t = "str"
       THEN [row |-> Put(row, headers[name], Encode(value)), err |-> ""]
       \* value has no encode
       ELSE [row |-> row, err |-> "AttributeError"]
  ELSE [row |-> row, err |-> ""]

\* DictWriter.writerow(rowdict): rowdict.get(key, '') for each field name
writerow(fieldnames, rowdict) ==
  [i \in 1..Len(fieldnames) |->
     IF fieldnames[i] \in DOMAIN rowdict
     THEN FieldText(rowdict[fieldnames[i]])
     ELSE Py("str", 0, EmptyDict)]

\* CsvFilter(csv_file, csv_header_properties) has been constructed
InitCsv ==
  /\ pc = "csv"
  /\ RunIdle
  /\ NoSession
  /\ ResolveIdle
  /\ GearIdle
  /\ PaceIdle
  /\ template \in Templates
  /\ LET loaded == load_properties(template, [props |-> <<>>, keys |-> <<>>])
     IN  /\ csv_columns = loaded.keys
         /\ csv_headers = loaded.props
  /\ current_row = <<>>
  /\ csv_file = <<>>
  /\ csvCall = NoCsvCall

write_header ==
  /\ pc \in {"csv", "record"}
  /\ Len(csv_file) < MaxWrites
  /\ csv_file' = Append(csv_file,
                        [kind |-> "header",
                         fields |-> csv_field_names(csv_columns, csv_headers)])
  /\ csvCall' = [NoCsvCall EXCEPT !.op = "write_header"]
  /\ UNCHANGED <<pc, runVars, resolveVars, sessionVars, gearCall, paceVars,
                 template, csv_columns, csv_headers, current_row>>

write_row ==
  /\ pc = "csv"
  /\ Len(csv_file) < MaxWrites
  /\ csv_file' = Append(csv_file,
                        [kind |-> "row",
                         fields |-> writerow(csv_field_names(csv_columns,
                                                             csv_headers),
                                             current_row)])
  /\ current_row' = <<>>
  /\ csvCall' = [NoCsvCall EXCEPT !.op = "write_row"]
  /\ UNCHANGED <<pc, runVars, resolveVars, sessionVars, gearCall, paceVars,
                 template, csv_columns, csv_headers>>

SetColumn ==
  /\ pc = "csv"
  /\ \E name \in SetNames, value \in CsvValues :
       LET r == set_column(current_row, csv_columns, csv_headers, name, value)
       IN  /\ current_row' = r.row
           /\ csvCall' = [op |-> "set_column", name |-> name, value |-> value,
                          err |-> r.err]
  /\ UNCHANGED <<pc, runVars, resolveVars, sessionVars, gearCall, paceVars,
                 template, csv_columns, csv_headers, csv_file>>

NextCsv == write_header \/ write_row \/ SetColumn

\* calls of the methods of a CsvFilter
SpecCsv == InitCsv /\ [][NextCsv]_vars

(* --------------------------- csv_write_record -------------------------- *)

\* the activities csv_write_record is called for, each with all its fields
RecordActs == {0, 1}

\* a CsvFilter has been constructed and no record written yet
InitRecord ==
  /\ pc = "record"
  /\ RunIdle
  /\ NoSession
  /\ ResolveIdle
  /\ GearIdle
  /\ PaceIdle
  /\ template \in Templates
  /\ LET loaded == load_properties(template, [props |-> <<>>, keys |-> <<>>])
     IN  /\ csv_columns = loaded.keys
         /\ csv_headers = loaded.props
  /\ current_row = <<>>
  /\ csv_file = <<>>
  /\ csvCall = NoCsvCall

\* one call csv_write_record(csv_filter, extract, actvty, details, ...): the
\* module defines and imports no 'present', so that the call at the head of
\* the function raises NameError, before the first set_column and before
\* write_row; nothing catches the exception
csv_write_record ==
  /\ pc = "record"
  /\ \E a \in RecordActs :
       csvCall' = [op |-> "csv_write_record", name |-> "",
                   value |-> Py("int", a, EmptyDict), err |-> "NameError"]
  /\ pc' = "aborted"
  /\ error' = "NameError"
  /\ UNCHANGED <<pageVars, tries, activity_details, device_dict, extract, disk,
                 disk0, listReqs, processed, pages, detailLog, reqs, devReqs,
                 devLog, lookupId, dl, devResp, listStatus, resolveVars,
                 sessionVars, gearCall, paceVars, template, csv_columns,
                 csv_headers, current_row, csv_file>>

NextRecord == write_header \/ csv_write_record

\* the header, and calls of csv_write_record
SpecRecord == InitRecord /\ [][NextRecord]_vars

(* ----------------------- pace_or_speed_formatted ----------------------- *)

\* activity types that use pace: running, hiking, walking
USES_PACE == {1, 3, 9}

\* type ids: the pace types, cycling (2) and another type (17)
TypeIds == USES_PACE \cup {2, 17}

\* speeds, in mm/s: 0.1 m/s (10000 s/km), 0.15 m/s, 0.167 m/s (5988 s/km,
\* the slowest of them below 100 minutes), 1 m/s, 2.778 m/s (10.0008 km/h),
\* 3 m/s and 12.345 m/s
Speeds == {100, 150, 167, 1000, 2778, 3000, 12345}

DigitChars == <<"0", "1", "2", "3", "4", "5", "6", "7", "8", "9">>

\* the decimal digits of n >= 0, as format's 'd' writes them
RECURSIVE Digits(_)
Digits(n) ==
  IF n < 10
  THEN <<DigitChars[n + 1]>>
  ELSE Digits(n \div 10) \o <<DigitChars[(n % 10) + 1]>>

\* format's '02d': the digits, zero-padded to a width of at least two
Pad2(n) == IF n < 10 THEN <<"0">> \o Digits(n) ELSE Digits(n)

\* round(a / b) for a >= 0, b > 0: to the nearest integer, ties to even
Round(a, b) ==
  LET q == a \div b
      r == a % b
  IN  IF 2 * r < b THEN q
      ELSE IF 2 * r > b THEN q + 1
      ELSE IF q % 2 = 0 THEN q ELSE q + 1

\* pace_or_speed_formatted, for a speed of m mm/s: kmh is 36 * m / 10000, so
\* that 3600 / kmh is 1000000 / m and 10 * kmh is 36 * m / 1000
pace_or_speed_formatted(t, p, m) ==
  IF t \in USES_PACE \/ p \in USES_PACE
  THEN LET secs == Round(1000000, m)
       IN  Pad2(secs \div 60) \o <<":">> \o Pad2(secs % 60)
  ELSE LET tenths == Round(36 * m, 1000)
       IN  Digits(tenths \div 10) \o <<".">> \o Digits(tenths % 10)

InitPace ==
  /\ pc = "pace"
  /\ RunIdle
  /\ NoSession
  /\ ResolveIdle
  /\ GearIdle
  /\ CsvIdle
  /\ PaceIdle

\* one call of pace_or_speed_formatted
PaceCall ==
  /\ pc = "pace"
  /\ \E t \in TypeIds : \E p \in TypeIds : \E m \in Speeds :
       /\ type_id' = t
       /\ parent_type_id' = p
       /\ mps' = m
       /\ formatted' = pace_or_speed_formatted(t, p, m)
  /\ UNCHANGED <<pc, runVars, resolveVars, sessionVars, gearCall, csvVars>>

\* calls of pace_or_speed_formatted
SpecPace == InitPace /\ [][PaceCall]_vars

(* --------------------------- specification ----------------------------- *)

NextRun ==
  \/ ListRequest
  \/ ListFail
  \/ Finish
  \/ DetailRequest
  \/ DeviceStep
  \/ GearStep
  \/ DownloadStep

\* a run of get_activities
SpecRun == InitRun /\ [][NextRun]_vars

\* a run of get_activities in which every HTTP call returns: the program is
\* sequential, so that the step that is enabled is taken
SpecRunLive == SpecRun /\ WF_vars(NextRun)

\* calls of download_activity
SpecApi == InitApi /\ [][ApiCall]_vars

InitResolve ==
  /\ pc = "resolve"
  /\ error = ""
  /\ total_n = 0
  /\ downloaded_n = 0
  /\ num_to_download = 0
  /\ all_activities = <<>>
  /\ idx = 0
  /\ tries = 0
  /\ activity_details = NoDetails
  /\ device_dict = <<>>
  /\ extract = NoExtract
  /\ disk = NoFiles
  /\ disk0 = disk
  /\ listReqs = <<>>
  /\ processed = <<>>
  /\ pages = <<>>
  /\ detailLog = <<>>
  /\ reqs = NoReqs
  /\ devReqs = [d \in DeviceIds |-> 0]
  /\ devLog = [d \in DeviceIds |-> {}]
  /\ lookupId = 0
  /\ dl = NoCall
  /\ devResp = NoDevice
  /\ listStatus = 0
  /\ NoSession
  /\ GearIdle
  /\ CsvIdle
  /\ PaceIdle
  /\ element \in Keys
  /\ act \in Summaries
  /\ detail \in Details
  /\ result = PyNone

\* result = from_activities_or_detail(element, act, detail, 'summaryDTO')
Resolve ==
  /\ pc = "resolve"
  /\ pc' = "resolved"
  /\ result' = from_activities_or_detail(element, act, detail, "summaryDTO")
  /\ UNCHANGED <<runVars, element, act, detail, sessionVars, gearCall,
                 csvVars, paceVars>>

\* the field resolver on every input
SpecResolve == InitResolve /\ [][Resolve]_vars

(* ------------------- GarminConnect.__init__ and a run ------------------ *)

\* what the response to the login POST holds: a ticket, or none
LoginResponses == {"found", "none"}

match_mutAlways(text) == TRUE

\* pattern.match(login_req.text)
match(text) == text = "found"

\* before the constructor: no request yet, and the files of an earlier run
InitSession ==
  /\ pc = "login"
  /\ error = ""
  /\ total_n = 0
  /\ downloaded_n = 0
  /\ num_to_download = 0
  /\ all_activities = <<>>
  /\ idx = 0
  /\ tries = 0
  /\ activity_details = NoDetails
  /\ device_dict = <<>>
  /\ extract = NoExtract
  /\ disk \in RunDisks
  /\ disk0 = disk
  /\ listReqs = <<>>
  /\ processed = <<>>
  /\ pages = <<>>
  /\ detailLog = <<>>
  /\ reqs = NoReqs
  /\ devReqs = [d \in DeviceIds |-> 0]
  /\ devLog = [d \in DeviceIds |-> {}]
  /\ lookupId = 0
  /\ dl = NoCall
  /\ devResp = NoDevice
  /\ listStatus = 0
  /\ NoSession
  /\ ResolveIdle
  /\ GearIdle
  /\ CsvIdle
  /\ PaceIdle

\* login: the GET and the POST of the login page, the search for the ticket,
\* and the authentication request that carries it
login ==
  /\ pc = "login"
  /\ \E text \in LoginResponses :
       /\ ticket' = text
       /\ IF match(text)
          THEN /\ http' = http \o <<"LOGIN", "LOGIN_POST", "POST_AUTH">>
               /\ pc' = "types"
               /\ error' = error
          ELSE /\ http' = http \o <<"LOGIN", "LOGIN_POST">>
               /\ pc' = "aborted"
               /\ error' = "RuntimeError"
  /\ UNCHANGED <<total_n, downloaded_n, num_to_download, all_activities, idx,
                 tries, activity_details, device_dict, extract, disk, disk0,
                 listReqs, processed, pages, detailLog, reqs, devReqs, devLog,
                 lookupId, dl, devResp, listStatus, resolveVars, gearCall,
                 csvVars, paceVars>>

\* get_activity_types and get_event_types: one request each
get_types ==
  /\ pc = "types"
  /\ http' = http \o <<"ACT_PROPS", "EVT_PROPS">>
  /\ pc' = "userstats"
  /\ UNCHANGED <<runVars, ticket, resolveVars, gearCall, csvVars, paceVars>>

\* get_userstats: one request, and HTTPError unless the response is ok
get_userstats ==
  /\ pc = "userstats"
  /\ http' = Append(http, "USERSTATS")
  /\ \E status \in Statuses :
       IF Ok(status)
       THEN pc' = "count" /\ error' = error
       ELSE pc' = "aborted" /\ error' = "HTTPError"
  /\ UNCHANGED <<total_n, downloaded_n, num_to_download, all_activities, idx,
                 tries, activity_details, device_dict, extract, disk, disk0,
                 listReqs, processed, pages, detailLog, reqs, devReqs, devLog,
                 lookupId, dl, devResp, listStatus, ticket, resolveVars,
                 gearCall, csvVars, paceVars>>

\* get_n_activites at the head of get_activities: the count asked for, or
\* the total of the user's statistics
get_n_activites ==
  /\ pc = "count"
  /\ total_n' \in Totals
  /\ pc' = "loop"
  /\ UNCHANGED <<error, downloaded_n, num_to_download, all_activities, idx,
                 tries, activity_details, device_dict, extract, disk, disk0,
                 listReqs, processed, pages, detailLog, reqs, devReqs, devLog,
                 lookupId, dl, devResp, listStatus, otherVars>>

NextSession ==
  \/ login
  \/ get_types
  \/ get_userstats
  \/ get_n_activites
  \/ NextRun

\* the constructor, then a run of get_activities
SpecSession == InitSession /\ [][NextSession]_vars

(* --------------------------- a restarted run -------------------------- *)

\* the export directory after download_activity has fetched and unpacked
\* the archive of each activity of S
RECURSIVE Downloaded(_, _)
Downloaded(dsk, S) ==
  IF S = {} THEN dsk
  ELSE LET a == CHOOSE x \in S : TRUE
       IN  Downloaded(download_activity(dsk, a, "ORIGINAL", 200,
                                        Zip(<<"fit">>)).disk,
                      S \ {a})

\* what an earlier run, interrupted or not, has left: the archives of some
\* of the newest activities
RestartDisks ==
  { Downloaded(NoFiles, S) :
      S \in (SUBSET { a \in Acts : a < MaxPreExisting }) \ {{}} }

\* get_activities is started again on the directory of an earlier run
InitRestart ==
  /\ pc = "loop"
  /\ error = ""
  /\ total_n \in Totals
  /\ downloaded_n = 0
  /\ num_to_download = 0
  /\ all_activities = <<>>
  /\ idx = 0
  /\ tries = 0
  /\ activity_details = NoDetails
  /\ device_dict = <<>>
  /\ extract = NoExtract
  /\ disk \in RestartDisks
  /\ disk0 = disk
  /\ listReqs = <<>>
  /\ processed = <<>>
  /\ pages = <<>>
  /\ detailLog = <<>>
  /\ reqs = NoReqs
  /\ devReqs = [d \in DeviceIds |-> 0]
  /\ devLog = [d \in DeviceIds |-> {}]
  /\ lookupId = 0
  /\ dl = NoCall
  /\ devResp = NoDevice
  /\ listStatus = 0
  /\ LoggedIn
  /\ ResolveIdle
  /\ GearIdle
  /\ CsvIdle
  /\ PaceIdle

InitRerun == InitRestart \/ InitApi

NextRerun == NextRun \/ ApiCall

\* calls of download_activity one after the other, and a run of
\* get_activities on the directory of an earlier run
SpecRerun == InitRerun /\ [][NextRerun]_vars

Init == InitRun \/ InitApi

Next == NextRun \/ ApiCall

\* both
Spec == Init /\ [][Next]_vars

(* ------------------------------ properties ---------------------------- *)

Called == dl.act # -1

Target == download_filename(dl.act, dl.fmt)

\* an exception that left get_activities ends the run: nothing is requested
\* or processed afterwards
AbortIsFinal ==
  pc = "aborted" =>
    /\ pc' = "aborted"
    /\ UNCHANGED <<processed, listReqs, reqs, devReqs, disk, dl>>

\* C1: a call of download_activity, in any format, whose target file is
\* already on disk issues no request, leaves the file as it was and returns
\* False without raising.
C1_ExistingTargetIsSkipped ==
  (Called /\ dl.before.kind # "absent") =>
    /\ dl.nreq = 0
    /\ File(disk, Target) = dl.before
    /\ dl.ret = "False"

\* C1, for the formats download_activity accepts
C1_ExistingTargetIsSkippedIfAllowed ==
  (Called /\ dl.before.kind # "absent" /\ dl.fmt \in allowed_formats) =>
    /\ dl.nreq = 0
    /\ File(disk, Target) = dl.before
    /\ dl.ret = "False"

AllFalse(log) == \A k \in 1..Len(log) : ~log[k]

C2_Retry ==
  /\ Len(detailLog) <= 3
  /\ tries = Len(detailLog)
  /\ pc = "details" => AllFalse(detailLog) /\ Len(detailLog) < 3
  /\ pc = "device" =>
       /\ Len(detailLog) >= 1
       /\ detailLog[Len(detailLog)]
       /\ AllFalse(SubSeq(detailLog, 1, Len(detailLog) - 1))
       /\ activity_details.summary \notin {"missing", "null"}
       /\ activity_details.activityId = processed[Len(processed)]
  /\ (pc = "aborted" /\ error = "RuntimeError") =>
       /\ Len(detailLog) = 3
       /\ AllFalse(detailLog)
       /\ reqs = NoReqs

\* C2: get_activity_details issues at most 3 detail requests per activity
\* and stops at the first response with a summary, which it returns (k
\* requests if the k-th response is the first with a summary); after three
\* responses without a summary it raises, the run aborts with no device,
\* gear or download request for that activity, and nothing is processed
\* after the abort.
C2_DetailRetries == []C2_Retry /\ [][AbortIsFinal]_vars

\* C2 witness: the third response is the first that carries a summary
C2_ThirdTrySucceeds == pc = "device" /\ detailLog = <<FALSE, FALSE, TRUE>>

\* C3: after an ORIGINAL download of a missing target that is answered 404,
\* download_activity has returned normally and the target is on disk with
\* zero bytes (so a later call finds it and requests nothing).
C3_PlaceholderIsKept ==
  (Called /\ dl.fmt = "ORIGINAL" /\ dl.before = Absent /\ dl.status = 404) =>
    /\ dl.ret = "True"
    /\ File(disk, Target) = Empty

\* C4: a zero-byte '.zip' target that is on disk when the run starts is
\* still there with zero bytes at every point of the run, and the call of
\* download_activity for its activity requests nothing, opens no archive
\* and deletes nothing.
C4_ZeroByteZipIsLeftAlone ==
  /\ \A a \in Acts :
       File(disk0, <<a, "zip">>) = Empty => File(disk, <<a, "zip">>) = Empty
  /\ (Called /\ File(disk0, <<dl.act, "zip">>) = Empty) =>
       /\ dl.nreq = 0
       /\ ~dl.unzip
       /\ ~dl.unlink
       /\ dl.ret = "False"

\* C4 witness: the run is over and has processed such an activity
C4_ZeroByteZipWasProcessed ==
  /\ pc = "done"
  /\ \E k \in 1..Len(processed) :
       File(disk0, <<processed[k], "zip">>) = Empty

C5_Fatal ==
  (/\ Called
   /\ dl.nreq > 0
   /\ dl.status >= 400
   /\ ~(dl.status = 404 /\ dl.fmt = "ORIGINAL")) =>
    /\ dl.ret = "raise"
    /\ dl.err = "Exception"
    /\ File(disk, Target) = Absent
    /\ pc # "api" => pc = "aborted" /\ error = "Exception"

\* C5: a download request answered with a status that is no success and is
\* not the 404 of an ORIGINAL download makes download_activity raise
\* without creating the target; in a run the exception aborts the run, and
\* nothing is processed after the abort.
C5_UnexpectedStatusIsFatal == []C5_Fatal /\ [][AbortIsFinal]_vars

\* C5 witness: a GPX download answered 404 has raised
C5_Gpx404Raised ==
  Called /\ dl.fmt = "GPX" /\ dl.status = 404 /\ dl.nreq = 1 /\ dl.ret = "raise"

RECURSIVE SumLimits(_)
SumLimits(rs) == IF rs = <<>> THEN 0 ELSE rs[1][2] + SumLimits(Tail(rs))

\* C6: the listing requests start at 0, each asks for min(N - start, 1000)
\* >= 1 entries, each next start is the previous start plus the previous
\* limit, and when get_activities returns the start has reached N: it has
\* issued ceil(N/1000) requests whose limits sum to N.
C6_Paging ==
  LET n == Len(listReqs)
  IN  /\ n > 0 => listReqs[1][1] = 0
      /\ \A k \in 1..n :
           /\ listReqs[k][2] = Min(total_n - listReqs[k][1], 1000)
           /\ listReqs[k][2] >= 1
      /\ \A k \in 1..(n - 1) :
           listReqs[k + 1][1] = listReqs[k][1] + listReqs[k][2]
      /\ pc = "done" =>
           /\ downloaded_n = total_n
           /\ n = (total_n + 999) \div 1000
           /\ SumLimits(listReqs) = total_n

\* C6 witness: a run of two pages, the first of them short, has returned
C6_TwoPagesDone ==
  /\ pc = "done"
  /\ listReqs = <<<<0, 1000>>, <<1000, 1>>>>
  /\ pages = <<1, 2>>

\* C7 as claimed: over the whole run every activity is processed before
\* every activity that started later (a smaller offset is a later start).
C7_ChronologicalOverRun ==
  \A i, j \in 1..Len(processed) : i < j => processed[i] > processed[j]

\* C7 amended: within a page the activities are processed oldest first, and
\* the pages are processed in the order they are requested, newest page
\* first: an activity of an earlier page is processed before every activity
\* of a later page although it started later.
C7_ChronologicalWithinPage ==
  \A i, j \in 1..Len(processed) :
    i < j =>
      /\ pages[i] <= pages[j]
      /\ pages[i] = pages[j] => processed[i] > processed[j]
      /\ pages[i] < pages[j] => processed[i] < processed[j]

\* C7 witness: the run is over and has processed the two activities of one
\* page, the older one first
C7_PageProcessedOldestFirst ==
  pc = "done" /\ pages = <<1, 1>> /\ processed = <<1, 0>>

\* the value the claim describes: the detail's when the detail is non-empty,
\* its container is present and truthy and the field in it is present and
\* truthy; else the summary's when present and truthy; else None
C8_Expected ==
  LET c == "summaryDTO"
      inDetail ==
        /\ detail.t = "dict"
        /\ DOMAIN detail.d # {}
        /\ c \in DOMAIN detail.d
        /\ PyTruthy(detail.d[c])
        /\ element \in DOMAIN detail.d[c].d
        /\ PyTruthy(detail.d[c].d[element])
      inSummary ==
        /\ act.t = "dict"
        /\ element \in DOMAIN act.d
        /\ PyTruthy(act.d[element])
  IN  IF inDetail THEN detail.d[c].d[element]
      ELSE IF inSummary THEN act.d[element]
      ELSE PyNone

\* C8: from_activities_or_detail returns the detail's value when that is
\* present and truthy under a present and truthy container, else the
\* summary's value when present and truthy, else None; a falsy value (0,
\* empty string, None) of either record is never returned.
C8_ResolverPrecedence ==
  pc = "resolved" =>
    /\ result = C8_Expected
    /\ result # PyNone => PyTruthy(result)

\* C8 witness: the detail holds a falsy value for the field, and the
\* summary's truthy value was returned
C8_FalsyDetailFallsBack ==
  /\ pc = "resolved"
  /\ detail.t = "dict"
  /\ "summaryDTO" \in DOMAIN detail.d
  /\ detail.d["summaryDTO"].t = "dict"
  /\ element \in DOMAIN detail.d["summaryDTO"].d
  /\ detail.d["summaryDTO"].d[element] = Py("int", 0, EmptyDict)
  /\ result = Py("int", 5, EmptyDict)

\* C9: in a run at most one device request is issued per id, every lookup
\* of an id returns the same value, and an activity whose detail has no id
\* causes no device request and resolves to None.
C9_DeviceCache ==
  /\ \A d \in DeviceIds : devReqs[d] <= 1 /\ Cardinality(devLog[d]) <= 1
  /\ (pc \in {"gear", "download"} /\ lookupId = 0) =>
       reqs.device = 0 /\ extract.device = None

\* C9 witness: a lookup answered from the cache, for an id whose first
\* lookup issued the request
C9_CacheHit ==
  /\ pc = "gear"
  /\ lookupId # 0
  /\ reqs.device = 0
  /\ devReqs[lookupId] = 1
  /\ extract.device # None

\* C10: no device or gear lookup aborts the run of get_activities.
C10_LookupsNeverAbort ==
  pc = "aborted" => error \notin {"AttributeError", "KeyError"}

\* a lookup of the current activity missed the cache and the device request
\* was answered
C11_MissAnswered == pc = "gear" /\ reqs.device = 1

C12_LoadGear ==
  /\ gearCall.reqs = gearCall.calls
  /\ gearCall.calls > 0 =>
       LET resp == gearCall.resp
       IN  gearCall.ret =
             IF ~resp.ok \/ Len(resp.gear) = 0 THEN None
             ELSE IF resp.gear[1].displayName.kind = "str"
                       /\ resp.gear[1].displayName.name # ""
             THEN resp.gear[1].displayName
             ELSE resp.gear[1].customMakeModel

\* C12 witness: the second call, for a list of two entries whose first has an
\* empty displayName, returned the first entry's customMakeModel
C12_FallsBackToModel ==
  /\ gearCall.calls = 2
  /\ gearCall.resp.ok
  /\ Len(gearCall.resp.gear) = 2
  /\ gearCall.resp.gear[1].displayName = Str("")
  /\ gearCall.resp.gear[2].displayName = Str("shoes")
  /\ gearCall.ret = Str("model")

\* C13: download_activity accepts each of the tags ORIGINAL, GPX, TCX and
\* JSON, and for any other tag raises before issuing a request or touching
\* a file.
C13_FourFormatsAccepted ==
  Called =>
    IF dl.fmt \in {"ORIGINAL", "GPX", "TCX", "JSON"}
    THEN dl.err # "ValueError"
    ELSE /\ dl.ret = "raise"
         /\ dl.err = "ValueError"
         /\ dl.nreq = 0
         /\ File(disk, Target) = dl.before

\* C14: the header row is written once before any data row and every
\* processed activity contributes one data row: after a run that has
\* processed k activities, activities.csv holds the header and k rows.
C14_OneRowPerActivity ==
  pc = "done" =>
    /\ Exists(disk, export_csv)
    /\ Len(File(disk, export_csv).entries) = 1 + Len(processed)

\* the indices of the 'key=value' lines of the template
PropIndices == { i \in 1..Len(template) : template[i].kind = "prop" }

\* the header text the template gives column k: that of its last line for k
HeaderOf(k) ==
  LET I == { i \in PropIndices : template[i].key = k }
  IN  template[CHOOSE i \in I : \A j \in I : j <= i].value

\* the headers of the template's columns, in the order of the lines
TemplateHeaders ==
  LET RECURSIVE Collect(_)
      Collect(i) ==
        IF i > Len(template) THEN <<>>
        ELSE IF i \in PropIndices
        THEN <<HeaderOf(template[i].key)>> \o Collect(i + 1)
        ELSE Collect(i + 1)
  IN  Collect(1)

\* C15: every header row written lists the header text of every column of
\* the template, in the template's order and nothing else, and every data
\* row has as many fields as the header.
C15_HeaderAndRowWidth ==
  \A r \in 1..Len(csv_file) :
    /\ csv_file[r].kind = "header" => csv_file[r].fields = TemplateHeaders
    /\ csv_file[r].kind = "row" =>
         Len(csv_file[r].fields) = Cardinality(PropIndices)

\* C15 witness: a template of two columns with different headers; the header
\* row, then a data row with the first column set and the second not
C15_HeaderThenPartialRow ==
  /\ Len(csv_file) = 2
  /\ csv_file[1].kind = "header"
  /\ Len(csv_file[1].fields) = 2
  /\ csv_file[1].fields[1] # csv_file[1].fields[2]
  /\ csv_file[2].kind = "row"
  /\ csv_file[2].fields[1].n > 0
  /\ csv_file[2].fields[2].n = 0

\* the headers of the template
C16_RowKeysAreHeaders ==
  DOMAIN current_row \subseteq { template[i].value : i \in PropIndices }

\* a set_column step changes the row only if the value is truthy and the
\* name is a column, and then only under the column's header; otherwise it
\* changes nothing and raises nothing
C16_SetColumnStep ==
  csvCall'.op = "set_column" =>
    LET name == csvCall'.name
        value == csvCall'.value
        truthy == \/ value.t = "str" /\ value.n > 0
                  \/ value.t = "int" /\ value.n # 0
    IN  IF truthy /\ (\E i \in PropIndices : template[i].key = name)
        THEN \A h \in (DOMAIN current_row \cup DOMAIN current_row') \ {HeaderOf(name)} :
               /\ h \in DOMAIN current_row
               /\ h \in DOMAIN current_row'
               /\ current_row'[h] = current_row[h]
        ELSE current_row' = current_row /\ csvCall'.err = ""

\* C16: set_column changes the in-progress row only when the value is truthy
\* and the name is a column of the template, and then only the entry under
\* the column's header; in every other case the row is unchanged and nothing
\* is raised; the keys of the row are always headers of the template.
C16_SetColumn == []C16_RowKeysAreHeaders /\ [][C16_SetColumnStep]_vars

\* C16 witness: a value was stored under the header of its column while the
\* row held a value under the other header
C16_ValueStored ==
  /\ csvCall.op = "set_column"
  /\ csvCall.err = ""
  /\ csvCall.name = "device"
  /\ csvCall.value.t = "str"
  /\ Cardinality(DOMAIN current_row) = 2
  /\ current_row[csv_headers["device"]].t = "bytes"

ListedOnce ==
  \A j \in 1..Len(listReqs) : \A k \in 1..Len(listReqs) :
    j < k => listReqs[j][1] < listReqs[k][1]

\* C18 as claimed: every page's listing request is issued once and never
\* repeated, and once a listing response has a failing status the run is
\* aborted, with no activity of that page processed.
C18_ListingFailureIsFatal ==
  /\ ListedOnce
  /\ listStatus >= 400 =>
       /\ pc = "aborted"
       /\ \A k \in 1..Len(pages) : pages[k] # Len(listReqs)

\* the requests of a run: listing, detail, device, gear and download
NoRunRequest ==
  /\ listReqs = <<>>
  /\ detailLog = <<>>
  /\ processed = <<>>
  /\ reqs = NoReqs
  /\ \A d \in DeviceIds : devReqs[d] = 0
  /\ dl = NoCall

\* C19, as a state predicate: when the login response held no ticket, login
\* has raised RuntimeError, the two login requests are the only requests
\* made, and no request of a run was made; and a run that has issued a
\* listing request follows a login that found a ticket and the constructor's
\* other requests.
C19_NoTicketNoRequest ==
  /\ ticket = "none" =>
       /\ pc = "aborted"
       /\ error = "RuntimeError"
       /\ http = <<"LOGIN", "LOGIN_POST">>
       /\ NoRunRequest
  /\ listReqs # <<>> => ticket = "found" /\ http = ConstructorRequests

\* C19: when the login response holds no ticket, login raises a fatal error
\* and nothing is requested afterwards (no authentication, user statistics,
\* listing, detail, device, gear or download request); every listing request
\* follows a login that found a ticket.
C19_LoginFailureIsFatal ==
  /\ []C19_NoTicketNoRequest
  /\ [][ticket = "none" => UNCHANGED vars]_vars

\* C19 witness: the login response held no ticket and login has raised
C19_LoginRaised ==
  ticket = "none" /\ pc = "aborted" /\ error = "RuntimeError"

IsDigit(c) == \E k \in 1..Len(DigitChars) : DigitChars[k] = c

\* MM:SS: two digits of minutes, a colon, two digits of seconds below 60
IsMMSS(str) ==
  /\ Len(str) = 5
  /\ IsDigit(str[1]) /\ IsDigit(str[2])
  /\ str[3] = ":"
  /\ str[4] \in {"0", "1", "2", "3", "4", "5"}
  /\ IsDigit(str[5])

\* digits, a point, and exactly one digit after it
IsOneDecimal(str) ==
  /\ Len(str) >= 3
  /\ str[Len(str) - 1] = "."
  /\ \A k \in (1..Len(str)) \ {Len(str) - 1} : IsDigit(str[k])

\* C20 as claimed: for a speed above zero, pace_or_speed_formatted returns a
\* string of the form MM:SS exactly when the type or the parent type is one of
\* the pace types 1, 3, 9, and otherwise the speed with exactly one decimal
\* digit.
C20_PaceOrSpeedFormat ==
  mps > 0 =>
    IF type_id \in {1, 3, 9} \/ parent_type_id \in {1, 3, 9}
    THEN IsMMSS(formatted)
    ELSE IsOneDecimal(formatted) /\ ~IsMMSS(formatted)

\* what does hold of the string returned: minutes of two digits or more
C20_PaceOrSpeedShape ==
  mps > 0 =>
    IF type_id \in {1, 3, 9} \/ parent_type_id \in {1, 3, 9}
    THEN /\ Len(formatted) >= 5
         /\ formatted[Len(formatted) - 2] = ":"
         /\ formatted[Len(formatted) - 1] \in {"0", "1", "2", "3", "4", "5"}
         /\ \A k \in (1..Len(formatted)) \ {Len(formatted) - 2} :
              IsDigit(formatted[k])
    ELSE IsOneDecimal(formatted)

\* the last page came back with fewer entries than the limit asked for
ShortPage == listReqs # <<>> /\ Len(all_activities) < num_to_download

\* C21, after the page: a short page has left get_activities at the head of
\* its loop with no error, every entry the page returned has been processed,
\* and the offset is the page's start plus the limit asked for
C21_ShortPageDone ==
  (pc = "loop" /\ ShortPage) =>
    LET last == listReqs[Len(listReqs)]
    IN  /\ error = ""
        /\ downloaded_n = last[1] + last[2]
        /\ { processed[k] : k \in { j \in 1..Len(pages) : pages[j] = Len(listReqs) } }
             = { all_activities[k] : k \in 1..Len(all_activities) }

\* C21, the next step: at the head of the loop with entries still to come,
\* the only step is the listing request for the next page
C21_NextPageRequested ==
  (pc = "loop" /\ downloaded_n < total_n) =>
    listReqs' = Append(listReqs, <<downloaded_n,
                                   IF total_n - downloaded_n > 1000
                                   THEN 1000 ELSE total_n - downloaded_n>>)

\* C21: when a listing page returns fewer entries than the limit asked for,
\* get_activities does not abort: it processes every entry returned, advances
\* the offset by the limit asked for, not by the number returned, and goes on
\* to request the remaining pages.
C21_ShortPageContinues ==
  /\ []C21_ShortPageDone
  /\ [][C21_NextPageRequested]_vars

\* C21 witness: the first page returned one entry for a limit of 1000, the
\* entry was processed, and the second page has been requested
C21_SecondPageAfterShort ==
  /\ Len(listReqs) = 2
  /\ listReqs[1] = <<0, 1000>>
  /\ listReqs[2][1] = 1000
  /\ processed = <<0>>
  /\ pages = <<1>>

\* the last call of download_activity was an ORIGINAL download that opened
\* the archive it wrote and returned True
Unzipped == Called /\ dl.fmt = "ORIGINAL" /\ dl.ret = "True" /\ dl.unzip

\* C22 as claimed: after an ORIGINAL download that yields a non-empty
\* archive and returns True, every entry of the archive is on disk under
\* '<stem>_<activityId>' with the entry's own extension.
C22_EveryEntryOnDisk ==
  Unzipped =>
    LET es == File(disk, Target).entries
    IN  \A k \in 1..Len(es) :
          File(disk, <<dl.act, es[k]>>) = Extracted(es, k)

\* what does hold after such a download: under each entry's name is the
\* last entry of the archive that has this extension
C22_LastEntryOfExtension ==
  Unzipped =>
    LET es == File(disk, Target).entries
    IN  \A k \in 1..Len(es) :
          /\ File(disk, <<dl.act, es[k]>>).kind = "extracted"
          /\ File(disk, <<dl.act, es[k]>>).entries = es
          /\ es[File(disk, <<dl.act, es[k]>>).entry] = es[k]
          /\ File(disk, <<dl.act, es[k]>>).entry >= k

\* C23 as claimed: download_activity with format JSON and no target file on
\* disk issues no request, leaves the target on disk and returns True
\* without raising.
C23_JsonDetailWritten ==
  (Called /\ dl.fmt = "JSON" /\ dl.before = Absent) =>
    /\ dl.nreq = 0
    /\ dl.ret = "True"
    /\ File(disk, Target) # Absent

\* the data rows of the CSV file
DataRows == SelectSeq(csv_file, LAMBDA w : w.kind = "row")

\* C24 as claimed: csv_write_record calls write_row once, after the columns
\* of the activity have been set: when a call for an activity that has all
\* its fields has ended, write_row has emitted the row of the activity and
\* the in-progress row is empty.
C24_RecordWritesOneRow ==
  csvCall.op = "csv_write_record" =>
    /\ Len(DataRows) = 1
    /\ current_row = <<>>
    /\ csvCall.err = ""

\* what holds of CsvFilter: a data row is appended only by write_row, one at
\* a time, and write_row leaves the in-progress row empty
C24_RowOnlyByWriteRow ==
  [][/\ Len(DataRows') # Len(DataRows) =>
          /\ csvCall'.op = "write_row"
          /\ csv_file' = Append(csv_file, csv_file'[Len(csv_file')])
          /\ csv_file'[Len(csv_file')].kind = "row"
     /\ csvCall'.op = "write_row" => current_row' = <<>>]_vars

\* C25, the resources: at most ceil(N/1000) listing requests, with strictly
\* increasing offsets, and for the activity in progress at most 3 detail
\* requests, 1 device request, 1 gear request and 1 download request
C25_RequestBounds ==
  /\ Len(listReqs) <= (total_n + 999) \div 1000
  /\ \A j \in 1..(Len(listReqs) - 1) : listReqs[j][1] < listReqs[j + 1][1]
  /\ Len(detailLog) <= 3
  /\ tries <= 3
  /\ reqs.device <= 1
  /\ reqs.gear <= 1
  /\ dl.nreq <= 1

\* C25: get_activities terminates for every target total N and every
\* sequence of service responses, provided each HTTP call returns: the paging
\* loop runs at most ceil(N/1000) times, as the offset grows in each of them
\* even when the page is short or empty, and each activity costs at most 3
\* detail requests, 1 device request, 1 gear request and 1 download request.
C25_Terminates ==
  /\ []C25_RequestBounds
  /\ <>(pc \in {"done", "aborted"})

\* C25 witness: a run for 1001 activities has returned after two pages that
\* both came back empty
C25_EmptyPagesDone ==
  /\ pc = "done"
  /\ total_n = 1001
  /\ Len(listReqs) = 2
  /\ processed = <<>>

\* a non-empty archive is the '.zip' target of activity a
Kept(dsk, a) == File(dsk, <<a, "zip">>).kind = "zip"

\* C26, the calls: after an ORIGINAL download that unpacked its archive and
\* returned True the target is on disk; a call for ORIGINAL that finds an
\* archive as its target returns False, requests nothing, opens no archive
\* and leaves the target as it was; in a restarted run the same holds for
\* every activity whose archive the earlier run left
C26_KeptArchiveIsSkipped ==
  /\ Unzipped => Kept(disk, dl.act)
  /\ (Called /\ dl.fmt = "ORIGINAL"
        /\ (dl.before.kind = "zip" \/ Kept(disk0, dl.act))) =>
       /\ dl.ret = "False"
       /\ dl.nreq = 0
       /\ ~dl.unzip
       /\ ~dl.unlink
       /\ File(disk, Target) = dl.before

\* C26, the files: no step removes or replaces a kept archive or a file
\* extracted from it
C26_KeptArchiveStays ==
  \A a \in Acts \cup ApiActs :
    Kept(disk, a) =>
      /\ File(disk', <<a, "zip">>) = File(disk, <<a, "zip">>)
      /\ \A e \in EntryExts :
           File(disk, <<a, e>>).kind = "extracted" =>
             File(disk', <<a, e>>) = File(disk, <<a, e>>)

====
